---- MODULE Spec2Model ----
(***************************************************************************)
(* Model of src/index.ts: the one-shot swap workflow main() that discovers *)
(* liquidity sources, reads the sell token's decimals, requests a price,   *)
(* reconciles the Permit2 allowance, requests a firm quote and prints the  *)
(* liquidity and tax breakdowns.                                           *)
(*                                                                         *)
(* main() is an async function: it runs from one await to the next without *)
(* interruption.  Every action below is one such segment: it is enabled    *)
(* when the awaited network operation resolves (the outcome is chosen by   *)
(* the environment) and runs the code up to the next await.                *)
(***************************************************************************)
EXTENDS Integers, Sequences, FiniteSets, TLC

VARIABLES
  pc,          \* position of main(): the await it is suspended on
  status,      \* per network operation: "idle", "pending", "ok" or "fail"
  calls,       \* history of the network operations invoked, with arguments
  log,         \* console output (console.log and console.error), in order
  priceParams, \* the URLSearchParams object built at line 111
  price,       \* the parsed price response (line 121)
  request,     \* the request returned by weth.simulate.approve (line 127)
  hash,        \* the transaction hash returned by weth.write.approve
  quote,       \* the parsed quote response (line 138)
  mainError,   \* the error main()'s promise rejected with, if any
  invoked      \* the report functions main() has called, in order

vars == <<pc, status, calls, log, priceParams, price, request, hash, quote, mainError,
          invoked>>

----------------------------------------------------------------------------
(* JavaScript values *)

Null == [kind |-> "null"]
Undefined == [kind |-> "undefined"]
Err(name) == [kind |-> "error", name |-> name]

(* Network operations of one run, in program order. *)
Ops == <<"sources", "decimals", "price", "simulate", "submit", "wait", "quote">>
OpSet == {Ops[i] : i \in 1..Len(Ops)}
Rank(op) == CHOOSE i \in 1..Len(Ops) : Ops[i] = op

(* Program constants *)
ChainId == "534352"
WethAddress == "0x5300000000000000000000000000000000000004"
WstethAddress == "0xf610A9dfB7C89644979b4A0f27063E9e7d7Cda32"
TakerAddress == "0xTAKER"
maxUint256 == "115792089237316195423570985008687907853269984665640564039457584007913129639935"
affiliateFeeBps == "100"
surplusCollection == "true"
SourcesUrl == "https://api.0x.org/swap/v1/sources"
PriceUrl == "https://api.0x.org/swap/permit2/price"
QuoteUrl == "https://api.0x.org/swap/permit2/quote"

----------------------------------------------------------------------------
(* Values the environment can answer with *)

DecimalsValues == {0, 18}
Spenders == {"0xPERMIT2", "0xOTHER"}
SourceLists == {<<"Uniswap_V3", "SyncSwap">>}

(* Outcomes of fetch(): the promise rejects, or resolves with response.ok
   false or true. *)
FetchOutcomes == {"reject", "notok", "ok"}

(* Outcomes of response.json(): it rejects, or resolves with one of the
   bodies. *)
JsonOutcomes(bodies) == {[ok |-> FALSE]} \cup {[ok |-> TRUE, body |-> b] : b \in bodies}

(* Bodies of the sources endpoint, as parsed by response.json(). *)
SourcesBodies ==
  {[kind |-> "object", sources |-> Undefined]}
  \cup {[kind |-> "object", sources |-> [kind |-> "object", keys |-> ks]] : ks \in SourceLists}

(* Bodies of the price endpoint: issues may be missing, issues.allowance may
   be missing, null, or an object naming the spender. *)
AllowanceValues ==
  {Null, Undefined} \cup {[kind |-> "object", spender |-> s] : s \in Spenders}
PriceBodies ==
  {[kind |-> "object", issues |-> Undefined]}
  \cup {[kind |-> "object", issues |-> [kind |-> "object", allowance |-> a]] : a \in AllowanceValues}

(* A JSON string value, as its sequence of characters *)
Str(chars) == [kind |-> "string", chars |-> chars]

(* proportionBps / buyTaxBps / sellTaxBps as they may arrive in the JSON *)
TaxValues == {Str(<<"0">>), Str(<<"2", "5", "0">>), Str(<<"a", "b", "c">>)}
FillValues ==
  {[source |-> "A", proportionBps |-> Str(<<"6", "0", "0", "0">>)],
   [source |-> "B", proportionBps |-> Str(<<"4", "0", "0", "0">>)],
   [source |-> "C", proportionBps |-> Str(<<"a", "b", "c">>)]}
MaxFills == 2

FillSeqs == UNION {[1..n -> FillValues] : n \in 0..MaxFills}
RouteValues ==
  {Undefined, [kind |-> "object", fills |-> Undefined]}
  \cup {[kind |-> "object", fills |-> [kind |-> "array", items |-> f]] : f \in FillSeqs}
TokenTaxValues ==
  {Undefined}
  \cup {[kind |-> "object", buyTaxBps |-> b, sellTaxBps |-> s] : b \in TaxValues, s \in TaxValues}
TokenMetadataValues ==
  {Undefined}
  \cup {[kind |-> "object", buyToken |-> b, sellToken |-> s] :
          b \in TokenTaxValues, s \in TokenTaxValues}
QuoteBodies ==
  {[kind |-> "object", route |-> r, tokenMetadata |-> t] :
     r \in RouteValues, t \in TokenMetadataValues}

SourcesOutcomes == JsonOutcomes(SourcesBodies)
PriceOutcomes == JsonOutcomes(PriceBodies)
QuoteOutcomes == JsonOutcomes(QuoteBodies)

Receipts == {[kind |-> "object", status |-> s] : s \in {"success", "reverted"}}
Hashes == {[kind |-> "string", value |-> "0xHASH"]}

----------------------------------------------------------------------------
(* Helpers on the state *)

Entry(level, text, data) == [level |-> level, text |-> text, data |-> data]

(* status after operation op has settled with result res *)
Settled(op, res) == [status EXCEPT ![op] = res]

(* the code runs on to its next await: the call is issued and main suspends *)
Continue(nextpc, st, call, lg) ==
  /\ pc' = nextpc
  /\ status' = [st EXCEPT ![call.op] = "pending"]
  /\ calls' = Append(calls, call)
  /\ log' = lg
  /\ mainError' = mainError

(* an exception leaves main(): its promise rejects, nothing further runs *)
Abort(st, err, lg) ==
  /\ pc' = "aborted"
  /\ status' = st
  /\ calls' = calls
  /\ log' = lg
  /\ mainError' = err

RECURSIVE Zeros(_)
Zeros(n) == IF n <= 0 THEN <<>> ELSE <<"0">> \o Zeros(n - 1)

(* parseUnits("0.1", decimals).toString(): the decimal digits of the sell
   amount in the token's smallest unit *)
parseUnits01(decimals) ==
  IF decimals = 0 THEN <<"0">> ELSE <<"1">> \o Zeros(decimals - 1)

(* new URLSearchParams({...}) at line 111 *)
MakePriceParams(decimals) ==
  [chainId |-> ChainId,
   sellToken |-> WethAddress,
   buyToken |-> WstethAddress,
   sellAmount |-> parseUnits01(decimals),
   taker |-> TakerAddress,
   affiliateFee |-> affiliateFeeBps,
   surplusCollection |-> surplusCollection]

FetchCall(op, url, params) == [op |-> op, url |-> url, params |-> params]
RpcCall(op, args) == [op |-> op, args |-> args]

(* fetchApi's catch block: console.error then rethrow (lines 63-66) *)
FetchApiCatch(lg, err) == Append(lg, Entry("error", "API Fetch Error:", err))

FetchError(outcome) ==
  IF outcome = "reject" THEN Err("FetchFailed") ELSE Err("HttpStatusError")

----------------------------------------------------------------------------
Init ==
  /\ pc = "start"
  /\ status = [op \in OpSet |-> "idle"]
  /\ calls = <<>>
  /\ log = <<>>
  /\ priceParams = Undefined
  /\ price = Undefined
  /\ request = Undefined
  /\ hash = Undefined
  /\ quote = Undefined
  /\ mainError = Undefined
  /\ invoked = <<>>

(* variant: getLiquiditySources() is not awaited, so the decimals read is
   issued while the sources request is outstanding *)
Start_noawait ==
  /\ pc = "start"
  /\ pc' = "sources_fetch"
  /\ status' = [status EXCEPT !["sources"] = "pending", !["decimals"] = "pending"]
  /\ calls' = calls \o <<FetchCall("sources", SourcesUrl, [chainId |-> ChainId]),
                         RpcCall("decimals", <<>>)>>
  /\ UNCHANGED <<log, mainError, priceParams, price, request, hash, quote, invoked>>

(* main() is called (line 147): getLiquiditySources() calls fetchApi, which
   issues fetch and suspends (lines 104, 97-98, 58). *)
Start ==
  /\ pc = "start"
  /\ Continue("sources_fetch", status,
              FetchCall("sources", SourcesUrl, [chainId |-> ChainId]), log)
  /\ UNCHANGED <<priceParams, price, request, hash, quote, invoked>>

(* fetch for the sources endpoint settles (lines 58-61, 63-66). A failure is
   logged by fetchApi and rethrown; neither getLiquiditySources nor main
   catches it, so main()'s promise rejects. *)
SourcesFetchResolved(outcome) ==
  /\ pc = "sources_fetch"
  /\ status["sources"] = "pending"
  /\ IF outcome = "ok"
     THEN /\ pc' = "sources_json"
          /\ UNCHANGED <<status, calls, log, mainError>>
     ELSE Abort(Settled("sources", "fail"), FetchError(outcome),
                FetchApiCatch(log, FetchError(outcome)))
  /\ UNCHANGED <<priceParams, price, request, hash, quote, invoked>>

(* response.json() for the sources endpoint settles (lines 62, 99), then
   main goes on to weth.read.decimals() (line 106). *)
SourcesJsonResolved(res) ==
  /\ pc = "sources_json"
  /\ status["sources"] = "pending"
  /\ IF ~res.ok
     THEN Abort(Settled("sources", "fail"), Err("SyntaxError"),
                FetchApiCatch(log, Err("SyntaxError")))
     ELSE IF res.body.sources = Undefined
     THEN \* Object.keys(undefined) throws outside fetchApi's try
          Abort(Settled("sources", "ok"), Err("TypeError"), log)
     ELSE Continue("decimals", Settled("sources", "ok"), RpcCall("decimals", <<>>),
                   Append(log, Entry("log", "Liquidity sources for Scroll chain:",
                                     res.body.sources.keys)))
  /\ UNCHANGED <<priceParams, price, request, hash, quote, invoked>>

(* variant: a failed decimals read falls back to 18 decimals *)
DecimalsResolved_default(ok, d) ==
  /\ pc = "decimals"
  /\ status["decimals"] = "pending"
  /\ LET dd == IF ok THEN d ELSE 18
     IN /\ priceParams' = MakePriceParams(dd)
        /\ Continue("price_fetch", Settled("decimals", IF ok THEN "ok" ELSE "fail"),
                    FetchCall("price", PriceUrl, MakePriceParams(dd)), log)
  /\ UNCHANGED <<price, request, hash, quote, invoked>>

(* weth.read.decimals() settles (lines 106-121): on success the sell amount
   and the parameter set are built and the price request is issued. *)
DecimalsResolved(ok, d) ==
  /\ pc = "decimals"
  /\ status["decimals"] = "pending"
  /\ IF ok
     THEN /\ priceParams' = MakePriceParams(d)
          /\ Continue("price_fetch", Settled("decimals", "ok"),
                      FetchCall("price", PriceUrl, MakePriceParams(d)), log)
     ELSE /\ UNCHANGED priceParams
          /\ Abort(Settled("decimals", "fail"), Err("ContractFunctionExecutionError"), log)
  /\ UNCHANGED <<price, request, hash, quote, invoked>>

(* Helpers to read the history *)
Called(op) == \E i \in 1..Len(calls) : calls[i].op = op
CallCount(op) == Cardinality({i \in 1..Len(calls) : calls[i].op = op})
Logged(text) == \E i \in 1..Len(log) : log[i].text = text

(* variant: the sentinel is taken to be undefined instead of null *)
NeedsApproval_undefined(p) == p.issues.allowance # Undefined

(* the condition of line 125 *)
NeedsApproval(p) == p.issues.allowance # Null

(* variant: only the sell amount is approved *)
ApprovalArgs_sellAmount(p) == <<p.issues.allowance.spender, priceParams.sellAmount>>

(* the argument list of weth.simulate.approve (line 127) *)
ApprovalArgs(p) == <<p.issues.allowance.spender, maxUint256>>

(* the argument of weth.write.approve (line 129) *)
SubmitArgs(req) == req.args

(* variant: the quote is requested without the affiliate fee *)
QuoteRequest_nofee == FetchCall("quote", QuoteUrl, [priceParams EXCEPT !.affiliateFee = "0"])

(* fetchApi(".../quote", priceParams) at line 138 *)
QuoteRequest == FetchCall("quote", QuoteUrl, priceParams)

(* the catch block of lines 131-133, after which main runs on to line 138 *)
CatchApproval(st, err, lg) ==
  Continue("quote_fetch", st, QuoteRequest,
           Append(lg, Entry("error", "Error approving Permit2:", err)))

(* variant: a failed price fetch is tried a second time *)
PriceFetchResolved_retry(outcome) ==
  /\ pc = "price_fetch"
  /\ status["price"] = "pending"
  /\ IF outcome = "ok"
     THEN /\ pc' = "price_json"
          /\ UNCHANGED <<status, calls, log, mainError>>
     ELSE IF CallCount("price") < 2
     THEN Continue("price_fetch", status, FetchCall("price", PriceUrl, priceParams),
                   FetchApiCatch(log, FetchError(outcome)))
     ELSE Abort(Settled("price", "fail"), FetchError(outcome),
                FetchApiCatch(log, FetchError(outcome)))
  /\ UNCHANGED <<priceParams, price, request, hash, quote, invoked>>

(* fetch for the price endpoint settles (lines 58-61, 63-66) *)
PriceFetchResolved(outcome) ==
  /\ pc = "price_fetch"
  /\ status["price"] = "pending"
  /\ IF outcome = "ok"
     THEN /\ pc' = "price_json"
          /\ UNCHANGED <<status, calls, log, mainError>>
     ELSE Abort(Settled("price", "fail"), FetchError(outcome),
                FetchApiCatch(log, FetchError(outcome)))
  /\ UNCHANGED <<priceParams, price, request, hash, quote, invoked>>

(* response.json() for the price endpoint settles; main logs the response
   and takes the approval branch up to its first await (lines 62, 121-138) *)
PriceJsonResolved(res) ==
  /\ pc = "price_json"
  /\ status["price"] = "pending"
  /\ IF ~res.ok
     THEN /\ UNCHANGED price
          /\ Abort(Settled("price", "fail"), Err("SyntaxError"),
                   FetchApiCatch(log, Err("SyntaxError")))
     ELSE /\ price' = res.body
          /\ LET body == res.body
                 lg == Append(log, Entry("log", "Price response:", body))
                 st == Settled("price", "ok")
             IN IF body.issues = Undefined
                THEN \* reading .allowance of undefined throws outside the try
                     Abort(st, Err("TypeError"), lg)
                ELSE IF NeedsApproval(body)
                THEN IF body.issues.allowance.kind = "object"
                     THEN Continue("simulate", st,
                                   RpcCall("simulate", ApprovalArgs(body)), lg)
                     ELSE \* reading .spender throws inside the try
                          CatchApproval(st, Err("TypeError"), lg)
                ELSE Continue("quote_fetch", st, QuoteRequest,
                              Append(lg, Entry("log", "WETH already approved for Permit2", Null)))
  /\ UNCHANGED <<priceParams, request, hash, quote, invoked>>

(* variant: the simulation's failure is logged but the approval is submitted
   all the same *)
SimulateResolved_submits(ok) ==
  /\ pc = "simulate"
  /\ status["simulate"] = "pending"
  /\ LET req == [address |-> WethAddress, functionName |-> "approve",
                 args |-> calls[Len(calls)].args]
     IN /\ request' = req
        /\ Continue("submit", Settled("simulate", IF ok THEN "ok" ELSE "fail"),
                    RpcCall("submit", SubmitArgs(req)),
                    IF ok
                    THEN Append(log, Entry("log", "Approving Permit2 to spend WETH...", req))
                    ELSE Append(log, Entry("error", "Error approving Permit2:",
                                           Err("ContractFunctionExecutionError"))))
  /\ UNCHANGED <<priceParams, price, hash, quote, invoked>>

(* weth.simulate.approve settles (lines 127-129, 131-133). The request the
   simulation returns carries the arguments it was called with. *)
SimulateResolved(ok) ==
  /\ pc = "simulate"
  /\ status["simulate"] = "pending"
  /\ IF ok
     THEN LET req == [address |-> WethAddress, functionName |-> "approve",
                      args |-> calls[Len(calls)].args]
          IN /\ request' = req
             /\ Continue("submit", Settled("simulate", "ok"),
                         RpcCall("submit", SubmitArgs(req)),
                         Append(log, Entry("log", "Approving Permit2 to spend WETH...", req)))
     ELSE /\ UNCHANGED request
          /\ CatchApproval(Settled("simulate", "fail"), Err("ContractFunctionExecutionError"), log)
  /\ UNCHANGED <<priceParams, price, hash, quote, invoked>>

(* variant: the submission is outside the try block, so its failure leaves
   main() *)
SubmitResolved_fatal(ok, h) ==
  /\ pc = "submit"
  /\ status["submit"] = "pending"
  /\ IF ok
     THEN /\ hash' = h
          /\ Continue("wait", Settled("submit", "ok"), RpcCall("wait", [hash |-> h]), log)
     ELSE /\ UNCHANGED hash
          /\ Abort(Settled("submit", "fail"), Err("TransactionExecutionError"), log)
  /\ UNCHANGED <<priceParams, price, request, quote, invoked>>

(* variant: waitForTransactionReceipt is started but not awaited, so the
   quote request is issued while the receipt is still being waited for *)
SubmitResolved_noawait(ok, h) ==
  /\ pc = "submit"
  /\ status["submit"] = "pending"
  /\ IF ok
     THEN /\ hash' = h
          /\ pc' = "quote_fetch"
          /\ status' = [status EXCEPT !["submit"] = "ok", !["wait"] = "pending",
                                      !["quote"] = "pending"]
          /\ calls' = calls \o <<RpcCall("wait", [hash |-> h]), QuoteRequest>>
          /\ log' = Append(log, Entry("log", "Approved Permit2 to spend WETH:", Undefined))
          /\ UNCHANGED mainError
     ELSE /\ UNCHANGED hash
          /\ CatchApproval(Settled("submit", "fail"), Err("TransactionExecutionError"), log)
  /\ UNCHANGED <<priceParams, price, request, quote, invoked>>

(* weth.write.approve settles (lines 129-133) *)
SubmitResolved(ok, h) ==
  /\ pc = "submit"
  /\ status["submit"] = "pending"
  /\ IF ok
     THEN /\ hash' = h
          /\ Continue("wait", Settled("submit", "ok"), RpcCall("wait", [hash |-> h]), log)
     ELSE /\ UNCHANGED hash
          /\ CatchApproval(Settled("submit", "fail"), Err("TransactionExecutionError"), log)
  /\ UNCHANGED <<priceParams, price, request, quote, invoked>>

(* variant: a failed receipt wait is polled again until it succeeds *)
ReceiptResolved_poll(ok, receipt) ==
  \/ /\ pc = "wait"
     /\ status["wait"] = "pending"
     /\ IF ok
        THEN Continue("quote_fetch", Settled("wait", "ok"), QuoteRequest,
                      Append(log, Entry("log", "Approved Permit2 to spend WETH:", receipt)))
        ELSE /\ pc' = "wait_poll"
             /\ UNCHANGED <<status, calls, log, mainError>>
     /\ UNCHANGED <<priceParams, price, request, hash, quote, invoked>>
  \/ /\ pc = "wait_poll"
     /\ pc' = "wait"
     /\ UNCHANGED <<status, calls, log, mainError, priceParams, price, request, hash,
                    quote, invoked>>

(* variant: a failed confirmation starts the approval over (once) *)
ReceiptResolved_reapprove(ok, receipt) ==
  /\ pc = "wait"
  /\ status["wait"] = "pending"
  /\ IF ok
     THEN Continue("quote_fetch", Settled("wait", "ok"), QuoteRequest,
                   Append(log, Entry("log", "Approved Permit2 to spend WETH:", receipt)))
     ELSE IF CallCount("simulate") < 2
     THEN Continue("simulate", Settled("wait", "fail"),
                   RpcCall("simulate", ApprovalArgs(price)),
                   Append(log, Entry("error", "Error approving Permit2:",
                                     Err("WaitForTransactionReceiptTimeoutError"))))
     ELSE CatchApproval(Settled("wait", "fail"), Err("WaitForTransactionReceiptTimeoutError"), log)
  /\ UNCHANGED <<priceParams, price, request, hash, quote, invoked>>

(* variant: the receipt wait is outside the try block, so its failure
   leaves main() *)
ReceiptResolved_fatal(ok, receipt) ==
  /\ pc = "wait"
  /\ status["wait"] = "pending"
  /\ IF ok
     THEN Continue("quote_fetch", Settled("wait", "ok"), QuoteRequest,
                   Append(log, Entry("log", "Approved Permit2 to spend WETH:", receipt)))
     ELSE Abort(Settled("wait", "fail"), Err("WaitForTransactionReceiptTimeoutError"), log)
  /\ UNCHANGED <<priceParams, price, request, hash, quote, invoked>>

(* client.waitForTransactionReceipt settles (lines 130-138) *)
ReceiptResolved(ok, receipt) ==
  /\ pc = "wait"
  /\ status["wait"] = "pending"
  /\ IF ok
     THEN Continue("quote_fetch", Settled("wait", "ok"), QuoteRequest,
                   Append(log, Entry("log", "Approved Permit2 to spend WETH:", receipt)))
     ELSE CatchApproval(Settled("wait", "fail"), Err("WaitForTransactionReceiptTimeoutError"), log)
  /\ UNCHANGED <<priceParams, price, request, hash, quote, invoked>>

(* fetch for the quote endpoint settles (lines 58-61, 63-66) *)
QuoteFetchResolved(outcome) ==
  /\ pc = "quote_fetch"
  /\ status["quote"] = "pending"
  /\ IF outcome = "ok"
     THEN /\ pc' = "quote_json"
          /\ UNCHANGED <<status, calls, log, mainError>>
     ELSE Abort(Settled("quote", "fail"), FetchError(outcome),
                FetchApiCatch(log, FetchError(outcome)))
  /\ UNCHANGED <<priceParams, price, request, hash, quote, invoked>>

----------------------------------------------------------------------------
(* The Report Builder: parseInt, toFixed, parseFloat and the two display
   functions, computed on character sequences as the JavaScript does. *)

DecDigits == <<"0", "1", "2", "3", "4", "5", "6", "7", "8", "9">>
HexLower == <<"a", "b", "c", "d", "e", "f">>
HexUpper == <<"A", "B", "C", "D", "E", "F">>
WhiteSpace == {" ", "\t", "\n"}
NaN == [nan |-> TRUE, val |-> 0]
Num(n) == [nan |-> FALSE, val |-> n]

(* value of character c as a digit in the given radix, or -1 *)
DigitVal(c, radix) ==
  IF \E i \in 1..10 : DecDigits[i] = c
  THEN (CHOOSE i \in 1..10 : DecDigits[i] = c) - 1
  ELSE IF radix = 16 /\ \E i \in 1..6 : HexLower[i] = c
  THEN (CHOOSE i \in 1..6 : HexLower[i] = c) + 9
  ELSE IF radix = 16 /\ \E i \in 1..6 : HexUpper[i] = c
  THEN (CHOOSE i \in 1..6 : HexUpper[i] = c) + 9
  ELSE -1

Drop(s, n) == SubSeq(s, n + 1, Len(s))

RECURSIVE TrimStart(_)
TrimStart(s) ==
  IF s # <<>> /\ s[1] \in WhiteSpace THEN TrimStart(Tail(s)) ELSE s

(* number of leading characters of s that are digits in the radix *)
RECURSIVE DigitPrefixLen(_, _)
DigitPrefixLen(s, radix) ==
  IF s # <<>> /\ DigitVal(s[1], radix) >= 0
  THEN 1 + DigitPrefixLen(Tail(s), radix)
  ELSE 0

(* value of the digit sequence s read in the radix, continuing from acc *)
RECURSIVE DigitsValue(_, _, _)
DigitsValue(s, radix, acc) ==
  IF s = <<>> THEN acc
  ELSE DigitsValue(Tail(s), radix, acc * radix + DigitVal(s[1], radix))

(* digits of the natural number n *)
RECURSIVE NatDigits(_)
NatDigits(n) ==
  IF n < 10 THEN <<DecDigits[n + 1]>>
  ELSE NatDigits(n \div 10) \o <<DecDigits[(n % 10) + 1]>>

(* ToString of a JSON value handed to parseInt *)
ToStringJS(v) ==
  IF v.kind = "string" THEN v.chars
  ELSE IF v.kind = "undefined" THEN <<"u", "n", "d", "e", "f", "i", "n", "e", "d">>
  ELSE <<"n", "u", "l", "l">>

(* parseInt(v) with no radix argument: leading white space is skipped, a sign
   is read, "0x" selects radix 16, the longest digit prefix is the value and
   an empty prefix gives NaN *)
parseInt(v) ==
  LET s0 == TrimStart(ToStringJS(v))
      neg == s0 # <<>> /\ s0[1] = "-"
      s1 == IF s0 # <<>> /\ s0[1] \in {"+", "-"} THEN Tail(s0) ELSE s0
      hex == Len(s1) >= 2 /\ s1[1] = "0" /\ s1[2] \in {"x", "X"}
      radix == IF hex THEN 16 ELSE 10
      s2 == IF hex THEN Drop(s1, 2) ELSE s1
      n == DigitPrefixLen(s2, radix)
      mag == DigitsValue(SubSeq(s2, 1, n), radix, 0)
  IN IF n = 0 THEN NaN ELSE Num(IF neg THEN 0 - mag ELSE mag)

(* (x / 100).toFixed(2) for x the result of parseInt: "NaN" for NaN, else
   the sign, the integer part, a point and exactly two decimals *)
toFixed2Div100(x) ==
  IF x.nan THEN <<"N", "a", "N">>
  ELSE LET a == IF x.val < 0 THEN 0 - x.val ELSE x.val
       IN (IF x.val < 0 THEN <<"-">> ELSE <<>>)
          \o NatDigits(a \div 100) \o <<".">>
          \o <<DecDigits[((a % 100) \div 10) + 1], DecDigits[(a % 10) + 1]>>

(* parseFloat(text): sign, digits, optional point and digits; the value is
   sign * mant / 10^scale.  No digit at all gives NaN.  (The texts produced by
   toFixed(2) carry no exponent.) *)
parseFloat(text) ==
  LET s0 == TrimStart(text)
      neg == s0 # <<>> /\ s0[1] = "-"
      s1 == IF s0 # <<>> /\ s0[1] \in {"+", "-"} THEN Tail(s0) ELSE s0
      ni == DigitPrefixLen(s1, 10)
      s2 == Drop(s1, ni)
      nf == IF s2 # <<>> /\ s2[1] = "." THEN DigitPrefixLen(Tail(s2), 10) ELSE 0
      digits == SubSeq(s1, 1, ni) \o (IF nf > 0 THEN SubSeq(s2, 2, nf + 1) ELSE <<>>)
  IN IF ni + nf = 0
     THEN [nan |-> TRUE, neg |-> FALSE, mant |-> 0, scale |-> 0]
     ELSE [nan |-> FALSE, neg |-> neg, mant |-> DigitsValue(digits, 10, 0), scale |-> nf]

(* variant: zero is taken to be a tax worth printing *)
GreaterThanZero_orEqual(f) == ~f.nan /\ ~f.neg

(* parseFloat(text) > 0 *)
GreaterThanZero(f) == ~f.nan /\ ~f.neg /\ f.mant > 0

(* variant: each line is printed only when its own value is above zero *)
displayTax_each(type, buyTax, sellTax) ==
  (IF GreaterThanZero(parseFloat(buyTax))
   THEN <<Entry("log", "Buy Tax", [type |-> type, pct |-> buyTax])>> ELSE <<>>)
  \o (IF GreaterThanZero(parseFloat(sellTax))
      THEN <<Entry("log", "Sell Tax", [type |-> type, pct |-> sellTax])>> ELSE <<>>)

(* the inner function displayTax (lines 81-86): the lines it prints *)
displayTax(type, buyTax, sellTax) ==
  IF GreaterThanZero(parseFloat(buyTax)) \/ GreaterThanZero(parseFloat(sellTax))
  THEN <<Entry("log", "Buy Tax", [type |-> type, pct |-> buyTax]),
         Entry("log", "Sell Tax", [type |-> type, pct |-> sellTax])>>
  ELSE <<>>

(* one call of displayTax from lines 91-92: reading a field of a missing token
   throws before displayTax is entered *)
TaxSide(type, token) ==
  IF token.kind # "object"
  THEN [threw |-> TRUE, lines |-> <<>>]
  ELSE [threw |-> FALSE,
        lines |-> displayTax(type, toFixed2Div100(parseInt(token.buyTaxBps)),
                             toFixed2Div100(parseInt(token.sellTaxBps)))]

(* displayTokenTaxes (lines 80-93): the lines printed and whether it threw *)
displayTokenTaxes(tokenMetadata) ==
  LET b == TaxSide("Buy Token", tokenMetadata.buyToken)
      s == TaxSide("Sell Token", tokenMetadata.sellToken)
  IN IF b.threw THEN b
     ELSE [threw |-> s.threw, lines |-> b.lines \o s.lines]

(* variant: the per-source lines are printed last fill first *)
displayLiquiditySources_reversed(route) ==
  IF route.fills.kind # "array"
  THEN [threw |-> TRUE, lines |-> <<>>]
  ELSE LET fills == route.fills.items
           n == Len(fills)
       IN [threw |-> FALSE,
           lines |-> <<Entry("log", "Sources", n)>>
                     \o [i \in 1..n |->
                           Entry("log", "Source share",
                                 [source |-> fills[n + 1 - i].source,
                                  pct |-> toFixed2Div100(parseInt(fills[n + 1 - i].proportionBps))])]]

(* displayLiquiditySources (lines 70-77): the lines printed and whether it
   threw; route.fills.reduce throws on a missing fills before any output *)
displayLiquiditySources(route) ==
  IF route.fills.kind # "array"
  THEN [threw |-> TRUE, lines |-> <<>>]
  ELSE LET fills == route.fills.items
       IN [threw |-> FALSE,
           lines |-> <<Entry("log", "Sources", Len(fills))>>
                     \o [i \in 1..Len(fills) |->
                           Entry("log", "Source share",
                                 [source |-> fills[i].source,
                                  pct |-> toFixed2Div100(parseInt(fills[i].proportionBps))])]]

Truthy(v) == v.kind \notin {"undefined", "null"}

(* variant: the tax breakdown is nested in the test for the route *)
Reports_nested(q) ==
  LET liq == IF Truthy(q.route) THEN displayLiquiditySources(q.route)
             ELSE [threw |-> FALSE, lines |-> <<>>]
      both == Truthy(q.route) /\ Truthy(q.tokenMetadata)
      tax == IF both THEN displayTokenTaxes(q.tokenMetadata)
             ELSE [threw |-> FALSE, lines |-> <<>>]
      il == IF Truthy(q.route) THEN <<"displayLiquiditySources">> ELSE <<>>
      it == IF both THEN <<"displayTokenTaxes">> ELSE <<>>
  IN IF liq.threw
     THEN [threw |-> TRUE, lines |-> liq.lines, invoked |-> il]
     ELSE [threw |-> tax.threw, lines |-> liq.lines \o tax.lines, invoked |-> il \o it]

(* lines 141-142: the reports built from the quote: the lines printed,
   whether an exception left main() and which report functions were called *)
Reports(q) ==
  LET liq == IF Truthy(q.route) THEN displayLiquiditySources(q.route)
             ELSE [threw |-> FALSE, lines |-> <<>>]
      tax == IF Truthy(q.tokenMetadata) THEN displayTokenTaxes(q.tokenMetadata)
             ELSE [threw |-> FALSE, lines |-> <<>>]
      il == IF Truthy(q.route) THEN <<"displayLiquiditySources">> ELSE <<>>
      it == IF Truthy(q.tokenMetadata) THEN <<"displayTokenTaxes">> ELSE <<>>
  IN IF liq.threw
     THEN [threw |-> TRUE, lines |-> liq.lines, invoked |-> il]
     ELSE [threw |-> tax.threw, lines |-> liq.lines \o tax.lines, invoked |-> il \o it]

(* response.json() for the quote endpoint settles; main logs the quote and
   prints the reports (lines 62, 138-145) *)
QuoteJsonResolved(res) ==
  /\ pc = "quote_json"
  /\ status["quote"] = "pending"
  /\ IF ~res.ok
     THEN /\ UNCHANGED <<quote, invoked>>
          /\ Abort(Settled("quote", "fail"), Err("SyntaxError"),
                   FetchApiCatch(log, Err("SyntaxError")))
     ELSE /\ quote' = res.body
          /\ invoked' = Reports(res.body).invoked
          /\ LET body == res.body
                 lg == Append(log, Entry("log", "Quote response:", body))
                 rep == Reports(body)
             IN IF rep.threw
                THEN Abort(Settled("quote", "ok"), Err("TypeError"), lg \o rep.lines)
                ELSE /\ pc' = "done"
                     /\ status' = Settled("quote", "ok")
                     /\ log' = lg \o rep.lines
                     /\ UNCHANGED <<calls, mainError>>
  /\ UNCHANGED <<priceParams, price, request, hash>>

Next ==
  \/ Start
  \/ \E o \in FetchOutcomes : SourcesFetchResolved(o)
  \/ \E r \in SourcesOutcomes : SourcesJsonResolved(r)
  \/ \E ok \in BOOLEAN, d \in DecimalsValues : DecimalsResolved(ok, d)
  \/ \E o \in FetchOutcomes : PriceFetchResolved(o)
  \/ \E r \in PriceOutcomes : PriceJsonResolved(r)
  \/ \E ok \in BOOLEAN : SimulateResolved(ok)
  \/ \E ok \in BOOLEAN, h \in Hashes : SubmitResolved(ok, h)
  \/ \E ok \in BOOLEAN, r \in Receipts : ReceiptResolved(ok, r)
  \/ \E o \in FetchOutcomes : QuoteFetchResolved(o)
  \/ \E r \in QuoteOutcomes : QuoteJsonResolved(r)

Spec == Init /\ [][Next]_vars

(* Every awaited network operation eventually settles and the event loop then
   runs main()'s continuation: a step that is possible is eventually taken. *)
FairSpec == Spec /\ WF_vars(Next)

----------------------------------------------------------------------------
(* Properties *)

ApprovalOps == {"simulate", "submit", "wait"}
ReportTexts == {"Sources", "Source share", "Buy Tax", "Sell Tax"}
ParamKeys == {"chainId", "sellToken", "buyToken", "sellAmount", "taker",
              "affiliateFee", "surplusCollection"}

(* issues.allowance of the price response main() has received, if any *)
PriceReceived == price.kind = "object" /\ price.issues.kind = "object"
AllowanceIs(a) == PriceReceived /\ price.issues.allowance = a
AllowanceHasSpender == PriceReceived /\ price.issues.allowance.kind = "object"

(* the call of operation op in the history (there is one) *)
CallOf(op) == calls[CHOOSE i \in 1..Len(calls) : calls[i].op = op]

(* C1: once a price response with issues.allowance = null has been received,
   no approval operation (simulate, submit, receipt wait) has been or is ever
   invoked, "WETH already approved for Permit2" is logged and the quote
   request has been issued. *)
C1_NullAllowanceNoApproval ==
  AllowanceIs(Null) =>
    /\ \A op \in ApprovalOps : ~Called(op) /\ status[op] = "idle"
    /\ Logged("WETH already approved for Permit2")
    /\ ~Logged("Error approving Permit2:")
    /\ Called("quote")

C1_Witness == AllowanceIs(Null) /\ pc = "done"

(* C2: every approval submission is preceded in the history by a simulation
   of approve(S, maxUint256) that succeeded, S being the spender named in
   the price response, and the submission carries the same S and
   maxUint256. *)
C2_SubmitAfterSimulation ==
  \A i \in 1..Len(calls) :
    calls[i].op = "submit" =>
      /\ AllowanceHasSpender
      /\ status["simulate"] = "ok"
      /\ \E j \in 1..(i - 1) :
           /\ calls[j].op = "simulate"
           /\ calls[j].args = <<price.issues.allowance.spender, maxUint256>>
      /\ calls[i].args = <<price.issues.allowance.spender, maxUint256>>

C2_Witness == Called("submit") /\ status["submit"] = "ok" /\ pc = "done"

(* C3: when the approval simulation has failed, the approval is never
   submitted and no receipt wait is performed, the failure is logged, and the
   run has gone on to issue the quote request. *)
C3_SimulationFailureBlocksSubmit ==
  status["simulate"] = "fail" =>
    /\ ~Called("submit") /\ status["submit"] = "idle"
    /\ ~Called("wait") /\ status["wait"] = "idle"
    /\ Logged("Error approving Permit2:")
    /\ Called("quote")

C3_Witness == status["simulate"] = "fail" /\ pc = "done"

(* C4: when an approval has been submitted, the quote request is issued only
   once the wait for its receipt has resolved: there is no state where the
   submission succeeded, the quote request was issued and the receipt wait is
   not yet started or still pending. *)
C4_QuoteAfterReceipt ==
  (status["submit"] = "ok" /\ Called("quote")) => status["wait"] \in {"ok", "fail"}

C4_Witness == status["submit"] = "ok" /\ status["wait"] = "ok" /\ status["quote"] = "pending"

(* C5: when the approval was submitted and the wait for its receipt failed,
   the failure is logged and the quote request is issued all the same, with
   the parameters of the price request. *)
C5_ReceiptFailureNotFatal ==
  status["wait"] = "fail" =>
    /\ status["submit"] = "ok"
    /\ Logged("Error approving Permit2:")
    /\ Called("quote")
    /\ CallOf("quote").params = CallOf("price").params

C5_Witness == status["wait"] = "fail" /\ pc = "done"

(* C6: a failed liquidity-source discovery is logged and the run goes on:
   the decimals read (step 2) is issued after it. *)
C6_SourcesFailureNotFatal ==
  status["sources"] = "fail" =>
    /\ Logged("API Fetch Error:")
    /\ pc # "aborted"
    /\ Called("decimals")

(* C7: a failed decimals read, price request or quote request ends the run:
   after a failed decimals read or price request no approval simulation,
   approval submission or quote request is performed, and after a failed
   quote request no liquidity or tax report line is printed. *)
C7_FatalSteps ==
  /\ (status["decimals"] = "fail" \/ status["price"] = "fail") =>
       /\ pc = "aborted"
       /\ ~Called("simulate") /\ ~Called("submit") /\ ~Called("wait") /\ ~Called("quote")
  /\ status["decimals"] = "fail" => ~Called("price")
  /\ status["quote"] = "fail" =>
       /\ pc = "aborted"
       /\ \A t \in ReportTexts : ~Logged(t)

C7_Witness == status["decimals"] = "fail" /\ pc = "aborted"

(* C8: the quote request carries exactly the parameter set that was sent
   with the price request (the seven parameters), and that parameter set is
   the one built before the price request, whatever the approval branch
   did. *)
C8_QuoteParamsSameAsPrice ==
  /\ Called("price") =>
       /\ CallOf("price").params = priceParams
       /\ DOMAIN priceParams = ParamKeys
  /\ Called("quote") =>
       /\ Called("price")
       /\ CallOf("quote").params = CallOf("price").params

C8_Witness == Called("quote") /\ status["wait"] \in {"ok", "fail"}

(* C9: every network operation is invoked at most once in a run, and an
   operation that was started (pending, succeeded or failed) was invoked
   exactly once: a failure is not followed by another attempt. *)
C9_NoRetry ==
  \A op \in OpSet :
    /\ CallCount(op) <= 1
    /\ status[op] # "idle" <=> CallCount(op) = 1

C9_Witness == status["price"] = "fail" /\ CallCount("price") = 1 /\ pc = "aborted"

(* C10: at most one network operation is outstanding, the operations are
   invoked in the order sources, decimals, price, simulate, submit, wait,
   quote, and when an operation has been started none of the earlier ones
   is still pending. *)
C10_OneAtATime ==
  /\ Cardinality({op \in OpSet : status[op] = "pending"}) <= 1
  /\ \A i, j \in 1..Len(calls) : i < j => Rank(calls[i].op) < Rank(calls[j].op)
  /\ \A a, b \in OpSet :
       (Rank(a) < Rank(b) /\ status[b] # "idle") => status[a] # "pending"

C10_Witness == Len(calls) = Len(Ops) /\ pc = "done"

(* Helpers to read the reports *)
TaxSides == {"Buy Token", "Sell Token"}
TaxDirections == {"Buy Tax", "Sell Tax"}
PositiveBps == {Str(<<"2", "5", "0">>), Str(<<"6", "0", "0", "0">>), Str(<<"4", "0", "0", "0">>)}
ZeroBps == {Str(<<"0">>)}
MalformedBps == {Str(<<"a", "b", "c">>)}

Invoked(f) == \E i \in 1..Len(invoked) : invoked[i] = f
QuoteReceived == status["quote"] = "ok" /\ quote.kind = "object"
TaxesInvoked == QuoteReceived /\ Invoked("displayTokenTaxes")

(* the token record of a side in the received tax metadata *)
SideToken(side) ==
  IF side = "Buy Token" THEN quote.tokenMetadata.buyToken ELSE quote.tokenMetadata.sellToken
SidePresent(side) == SideToken(side).kind = "object"

(* the raw basis-point value of a (side, direction) combination *)
SideBps(side, dir) ==
  IF dir = "Buy Tax" THEN SideToken(side).buyTaxBps ELSE SideToken(side).sellTaxBps

(* positions in the console output of the tax lines of a side / direction *)
TaxLines(side, dir) ==
  {i \in 1..Len(log) : log[i].text = dir /\ log[i].data.type = side}

(* C11: when displayTokenTaxes has run on metadata with both sides present,
   every (side, direction) combination whose basis-point value is greater
   than zero has exactly one line and every combination whose value is zero
   has none. *)
C11_OneLinePerPositiveTax ==
  (TaxesInvoked /\ \A side \in TaxSides : SidePresent(side)) =>
    \A side \in TaxSides, dir \in TaxDirections :
      /\ SideBps(side, dir) \in PositiveBps => Cardinality(TaxLines(side, dir)) = 1
      /\ SideBps(side, dir) \in ZeroBps => Cardinality(TaxLines(side, dir)) = 0

(* the side is reached by displayTokenTaxes: it is present, and the Sell
   Token side comes after the Buy Token side has been read *)
SideReached(side) ==
  /\ SidePresent(side)
  /\ side = "Sell Token" => SidePresent("Buy Token")
SideTaxed(side) ==
  \E dir \in TaxDirections : SideBps(side, dir) \in PositiveBps

(* C11 as amended: when displayTokenTaxes has run, the two lines of a side
   come together: a side that is reached and has at least one value greater
   than zero has exactly one buy-tax line immediately followed by exactly one
   sell-tax line (also for a value that is zero), and any other side has no
   line at all. *)
C11_BothLinesOrNone ==
  TaxesInvoked =>
    \A side \in TaxSides :
      IF SideReached(side) /\ SideTaxed(side)
      THEN /\ Cardinality(TaxLines(side, "Buy Tax")) = 1
           /\ Cardinality(TaxLines(side, "Sell Tax")) = 1
           /\ \A i \in TaxLines(side, "Buy Tax") : i + 1 \in TaxLines(side, "Sell Tax")
      ELSE \A dir \in TaxDirections : TaxLines(side, dir) = {}

C11_Witness ==
  /\ TaxesInvoked /\ pc = "done"
  /\ SidePresent("Buy Token") /\ SidePresent("Sell Token")
  /\ SideBps("Sell Token", "Buy Tax") \in ZeroBps
  /\ SideBps("Sell Token", "Sell Tax") \in PositiveBps
  /\ TaxLines("Sell Token", "Buy Tax") # {}

(* C12: when displayTokenTaxes has run on metadata in which a side is
   absent, no error is raised, the absent side has no line and a present
   side with a tax greater than zero still has its lines. *)
C12_MissingSideTolerated ==
  (TaxesInvoked /\ \E side \in TaxSides : ~SidePresent(side)) =>
    /\ pc = "done"
    /\ mainError = Undefined
    /\ \A side \in TaxSides, dir \in TaxDirections :
         /\ ~SidePresent(side) => TaxLines(side, dir) = {}
         /\ (SidePresent(side) /\ SideBps(side, dir) \in PositiveBps) =>
              TaxLines(side, dir) # {}

(* C15: when the quote has been received and a side of its tax metadata has
   buyTaxBps and sellTaxBps both zero, no tax line of that side is printed,
   whatever the other side holds. *)
C15_ZeroSideNoLines ==
  \A side \in TaxSides :
    (TaxesInvoked /\ SidePresent(side)
       /\ SideBps(side, "Buy Tax") \in ZeroBps /\ SideBps(side, "Sell Tax") \in ZeroBps) =>
      \A dir \in TaxDirections : TaxLines(side, dir) = {}

C15_Witness ==
  /\ TaxesInvoked /\ pc = "done"
  /\ SidePresent("Sell Token") /\ SidePresent("Buy Token")
  /\ SideBps("Sell Token", "Buy Tax") \in ZeroBps
  /\ SideBps("Sell Token", "Sell Tax") \in ZeroBps
  /\ SideBps("Buy Token", "Buy Tax") \in PositiveBps
  /\ TaxLines("Buy Token", "Buy Tax") # {}

(* the liquidity breakdown has run on a sequence of fills *)
LiquidityReported ==
  /\ QuoteReceived /\ Invoked("displayLiquiditySources")
  /\ quote.route.fills.kind = "array"
QuoteFills == quote.route.fills.items
LinesWith(text) == {i \in 1..Len(log) : log[i].text = text}

(* the percentage text of a well-formed proportionBps of the bounded inputs,
   written out: 6000 bps is 60.00 and 4000 bps is 40.00 *)
ExpectedShare(bps) ==
  IF bps = Str(<<"6", "0", "0", "0">>) THEN <<"6", "0", ".", "0", "0">>
  ELSE <<"4", "0", ".", "0", "0">>

(* C13: when displayLiquiditySources has run on a sequence of fills, the
   line after the quote response reports the number of fills, it is followed
   by exactly one per-source line per fill in input order, naming the fill's
   source and (for a numeric proportionBps) proportionBps/100 with two
   decimals, there is no other per-source line, and the report raises no
   error; for the empty sequence: 0 sources and no per-source line. *)
C13_LiquidityLines ==
  LiquidityReported =>
    \A k \in LinesWith("Quote response:") :
      /\ LinesWith("Sources") = {k + 1}
      /\ log[k + 1].data = Len(QuoteFills)
      /\ LinesWith("Source share") = {k + 1 + i : i \in 1..Len(QuoteFills)}
      /\ \A i \in 1..Len(QuoteFills) :
           /\ log[k + 1 + i].data.source = QuoteFills[i].source
           /\ QuoteFills[i].proportionBps \in PositiveBps =>
                log[k + 1 + i].data.pct = ExpectedShare(QuoteFills[i].proportionBps)
      /\ quote.tokenMetadata = Undefined => (pc = "done" /\ mainError = Undefined)

C13_Witness ==
  /\ LiquidityReported /\ pc = "done"
  /\ Len(QuoteFills) = 2
  /\ QuoteFills[1].source = "A" /\ QuoteFills[2].source = "B"
  /\ Cardinality(LinesWith("Source share")) = 2

(* the text toFixed gives for not-a-number *)
NaNText == <<"N", "a", "N">>

(* C14: a malformed proportionBps in the fills of a liquidity report, or a
   malformed buyTaxBps / sellTaxBps of a side the tax report reaches, ends
   the run with an error, and no printed line carries a not-a-number
   value. *)
C14_MalformedFailsLoudly ==
  /\ (LiquidityReported
        /\ \E i \in 1..Len(QuoteFills) : QuoteFills[i].proportionBps \in MalformedBps) =>
       pc = "aborted"
  /\ (TaxesInvoked
        /\ \E side \in TaxSides :
             /\ SideReached(side)
             /\ \E dir \in TaxDirections : SideBps(side, dir) \in MalformedBps) =>
       pc = "aborted"
  /\ \A i \in 1..Len(log) :
       log[i].text \in {"Source share", "Buy Tax", "Sell Tax"} => log[i].data.pct # NaNText

(* every report line in the console output comes after the line that
   prints the quote response *)
ReportLinesAfterQuote ==
  \A i \in 1..Len(log) :
    log[i].text \in ReportTexts =>
      \E k \in 1..(i - 1) : log[k].text = "Quote response:" /\ log[k].data = quote

(* C16: the liquidity breakdown has been invoked if and only if a quote was
   received and carries route, the tax breakdown if and only if a quote was
   received and carries tokenMetadata, and no report function is invoked and
   no report line printed before the quote request has succeeded. *)
C16_ReportsFromQuote ==
  /\ Invoked("displayLiquiditySources") <=> (QuoteReceived /\ Truthy(quote.route))
  /\ Invoked("displayTokenTaxes") <=> (QuoteReceived /\ Truthy(quote.tokenMetadata))
  /\ invoked # <<>> => status["quote"] = "ok"
  /\ ReportLinesAfterQuote

(* the liquidity breakdown was entered and threw: route has no fills array *)
LiquidityThrew == QuoteReceived /\ Truthy(quote.route) /\ quote.route.fills.kind # "array"

(* C16 as amended: as C16, except that the tax breakdown is invoked if and
   only if the received quote carries tokenMetadata and the liquidity
   breakdown, when it was invoked, returned without throwing; when both are
   invoked the liquidity breakdown comes first. *)
C16_ReportsFromQuoteUnlessThrown ==
  /\ Invoked("displayLiquiditySources") <=> (QuoteReceived /\ Truthy(quote.route))
  /\ Invoked("displayTokenTaxes") <=>
       (QuoteReceived /\ Truthy(quote.tokenMetadata) /\ ~LiquidityThrew)
  /\ Len(invoked) = 2 => invoked = <<"displayLiquiditySources", "displayTokenTaxes">>
  /\ invoked # <<>> => status["quote"] = "ok"
  /\ ReportLinesAfterQuote

C16_Witness ==
  /\ pc = "done"
  /\ invoked = <<"displayLiquiditySources", "displayTokenTaxes">>
  /\ LinesWith("Sources") # {}

(* The state of the Approval Coordinator, read off the run: the approval
   operation in flight if there is one, else the outcome of the last one. *)
ApprovalState ==
  IF ~PriceReceived THEN "NotChecked"
  ELSE IF price.issues.allowance = Null THEN "NoActionNeeded"
  ELSE IF status["simulate"] = "pending" THEN "Simulating"
  ELSE IF status["submit"] = "pending" THEN "Approved"
  ELSE IF status["wait"] = "pending" THEN "Submitted"
  ELSE IF status["wait"] = "ok" THEN "Confirmed"
  ELSE IF status["wait"] = "fail" THEN "ConfirmationFailed"
  ELSE IF status["submit"] = "fail" THEN "SubmissionFailed"
  ELSE IF status["simulate"] = "fail" THEN "SimulationFailed"
  ELSE "SpenderUnreadable"

(* the approval step is over: main() has gone on to the quote request *)
ApprovalStepOver == PriceReceived /\ Called("quote")

SpecTerminalStates == {"NoActionNeeded", "SimulationFailed", "Confirmed", "ConfirmationFailed"}

(* C17: for a price response whose issues.allowance is null or names a
   spender: an approval that is required is simulated, a successful
   simulation leads to Submitted, and the approval step ends in
   NoActionNeeded, SimulationFailed, Confirmed or ConfirmationFailed. *)
C17_ApprovalStateMachine ==
  /\ AllowanceHasSpender => Called("simulate")
  /\ (ApprovalStepOver /\ status["simulate"] = "ok") => status["submit"] = "ok"
  /\ (ApprovalStepOver /\ (AllowanceHasSpender \/ AllowanceIs(Null))) =>
       ApprovalState \in SpecTerminalStates

CodeTerminalStates ==
  SpecTerminalStates \cup {"SubmissionFailed", "SpenderUnreadable"}

ApprovalTransitions ==
  {<<"NotChecked", "NoActionNeeded">>, <<"NotChecked", "Simulating">>,
   <<"NotChecked", "SpenderUnreadable">>,
   <<"Simulating", "Approved">>, <<"Simulating", "SimulationFailed">>,
   <<"Approved", "Submitted">>, <<"Approved", "SubmissionFailed">>,
   <<"Submitted", "Confirmed">>, <<"Submitted", "ConfirmationFailed">>}

(* C17 as amended: an approval that is required and names a spender is
   simulated; a successful simulation always leads to a submission attempt,
   which leads to Submitted or to SubmissionFailed; the approval step ends in
   NoActionNeeded, SimulationFailed, SubmissionFailed, Confirmed,
   ConfirmationFailed or, when issues.allowance is neither null nor an
   object, in SpenderUnreadable (error logged, nothing simulated); and the
   state only moves along the transitions of the machine, so no terminal
   state is ever left. *)
C17_ApprovalStateMachineWithSubmitFailure ==
  /\ [](/\ AllowanceHasSpender => Called("simulate")
        /\ (PriceReceived /\ ApprovalState = "SpenderUnreadable") =>
             (\A op \in ApprovalOps : ~Called(op)) /\ Logged("Error approving Permit2:")
        /\ status["simulate"] = "ok" => Called("submit")
        /\ status["submit"] = "ok" => Called("wait")
        /\ ApprovalStepOver => ApprovalState \in CodeTerminalStates)
  /\ [][ApprovalState' = ApprovalState
          \/ <<ApprovalState, ApprovalState'>> \in ApprovalTransitions]_vars

C17_Witness == ApprovalState = "SubmissionFailed" /\ pc = "quote_fetch"

(* C18: when the simulation succeeded and the submission failed, no receipt
   wait is performed, the error is logged and the quote request is issued. *)
C18_SubmitFailureSwallowed ==
  status["submit"] = "fail" =>
    /\ status["simulate"] = "ok"
    /\ ~Called("wait") /\ status["wait"] = "idle"
    /\ Logged("Error approving Permit2:")
    /\ pc # "aborted" => mainError = Undefined
    /\ Called("quote")

C18_Witness == status["submit"] = "fail" /\ status["simulate"] = "ok" /\ pc = "done"

Terminated == pc \in {"done", "aborted"}

(* C19: when every awaited network operation eventually settles, every run
   of main() eventually ends, completed after the report step or aborted by
   an error that left main(). *)
C19_Terminates == <>Terminated

C19_Witness ==
  /\ pc = "done"
  /\ \A op \in OpSet : status[op] \in {"ok", "idle"}
  /\ status["wait"] = "ok"
  /\ invoked = <<>>

====
